---------------------------- MODULE Spec2Model ----------------------------
(***************************************************************************)
(* A model of skyhook (src/skyhook.go): the value marshaller between Go    *)
(* values and skylark values, and the plugin runner built on it.           *)
(*                                                                         *)
(* A value of either side is a pair <<tag, payload>>, x[1] and x[2].       *)
(*   Go side (interface{}): the tag is the dynamic type: "int", "int8",    *)
(*     ..., "uint64", "float32", "float64", "bool", "string", "slice"      *)
(*     ([]interface{}), "map" (map[interface{}]interface{}), "set"         *)
(*     (map[interface{}]bool), "struct" (any type ToValue has no case      *)
(*     for), and "skylark" (a skylark.Value held in the interface).        *)
(*   skylark side: the tag is "Bool", "Int", "Float", "String", "List",    *)
(*     "Tuple", "Dict", "Set", "Function", "NoneType".                     *)
(* A Go map is written as the sequence of its <<key, value>> entries in    *)
(* the order `range` visits them in this run; a skylark Dict or Set is the *)
(* sequence of its entries in insertion order.                             *)
(* An integer is a sign and a magnitude of 16-bit limbs, least significant *)
(* first, with no leading zero limb, so that 64-bit boundaries are exact.  *)
(* A call's outcome is <<"ok", value>>, <<"err", error>> or                *)
(* <<"panic", message>> (a Go run-time panic that ends the call).          *)
(***************************************************************************)
EXTENDS Integers, Sequences, FiniteSets, TLC

VARIABLES dirs, fs, pc, filename, args, idx, reads, data, globals, execCalls,
          ret, call

vars == <<dirs, fs, pc, filename, args, idx, reads, data, globals, execCalls,
          ret, call>>

runVars == <<dirs, fs, pc, filename, args, idx, reads, data, globals,
             execCalls, ret>>

\* ------------------------------------------------------------------------
\* Bounds of the model
\* ------------------------------------------------------------------------

\* Longest search path New is given.
MaxDirs == 3

\* Most entries of a generated flat container or namespace.
MaxLen == 2

\* Deepest nesting of a generated container.
MaxDepth == 2

\* ------------------------------------------------------------------------
\* Integers of arbitrary size
\* ------------------------------------------------------------------------

Base == 2 ^ 16

Big(neg, mag) == [neg |-> neg, mag |-> mag]

\* k limbs, each equal to x.
Limbs(k, x) == [i \in 1 .. k |-> x]

\* 2^k, 2^k - 1 and 2^k + 1 as magnitudes.
MagPow2(k) == Limbs(k \div 16, 0) \o <<2 ^ (k % 16)>>

MagPow2m1(k) ==
    Limbs(k \div 16, Base - 1) \o
        (IF k % 16 = 0 THEN <<>> ELSE <<2 ^ (k % 16) - 1>>)

MagPow2p1(k) ==
    IF k = 0 THEN <<2>>
    ELSE IF k < 16 THEN <<2 ^ k + 1>>
    ELSE <<1>> \o Limbs((k \div 16) - 1, 0) \o <<2 ^ (k % 16)>>

RECURSIVE MagLessFrom(_, _, _)
\* a < b for magnitudes of equal length, compared from limb i downwards.
MagLessFrom(a, b, i) ==
    IF i = 0 THEN FALSE
    ELSE IF a[i] # b[i] THEN a[i] < b[i]
    ELSE MagLessFrom(a, b, i - 1)

MagLess(a, b) ==
    IF Len(a) # Len(b) THEN Len(a) < Len(b) ELSE MagLessFrom(a, b, Len(a))

BigLess(a, b) ==
    IF a.neg /\ ~b.neg THEN TRUE
    ELSE IF ~a.neg /\ b.neg THEN FALSE
    ELSE IF a.neg THEN MagLess(b.mag, a.mag)
    ELSE MagLess(a.mag, b.mag)

BigLE(a, b) == a = b \/ BigLess(a, b)

\* The value of a one-limb integer as a number.
SmallValue(a) ==
    IF a.mag = <<>> THEN 0 ELSE IF a.neg THEN 0 - a.mag[1] ELSE a.mag[1]

BigZero == Big(FALSE, <<>>)
BigOne == Big(FALSE, <<1>>)
MaxInt64 == Big(FALSE, MagPow2m1(63))
MinInt64 == Big(TRUE, MagPow2(63))
MaxUint64 == Big(FALSE, MagPow2m1(64))

\* Integers around every width's boundaries, of both signs.
Widths == {7, 8, 15, 16, 31, 32, 63, 64}

BigSamples ==
    {BigZero, BigOne, Big(TRUE, <<1>>)}
    \cup UNION {{Big(s, MagPow2m1(w)), Big(s, MagPow2(w)), Big(s, MagPow2p1(w))} :
                    s \in BOOLEAN, w \in Widths}


\* ------------------------------------------------------------------------
\* Values and outcomes
\* ------------------------------------------------------------------------

Val(t, v) == <<t, v>>

Ok(v) == <<"ok", v>>
Err(kind, what) == <<"err", [kind |-> kind, what |-> what]>>
Panic(msg) == <<"panic", msg>>

\* Two outcomes are the same: the payloads are compared only when both are
\* values, both errors or both panics.
Same(a, b) == a[1] = b[1] /\ a[2] = b[2]

IsErr(r, kind, what) == r[1] = "err" /\ r[2].kind = kind /\ r[2].what = what

SignedTypes == {"int", "int8", "int16", "int32", "int64"}
UnsignedTypes == {"uint", "uint8", "uint16", "uint32", "uint64"}
FloatTypes == {"float32", "float64"}

\* Bits of a Go integer type; int and uint are those of a 64-bit build.
Bits(t) ==
    CASE t \in {"int8", "uint8"} -> 8
      [] t \in {"int16", "uint16"} -> 16
      [] t \in {"int32", "uint32"} -> 32
      [] t \in {"int64", "uint64", "int", "uint"} -> 64

\* The integers a Go integer type holds.
InRange(t, n) ==
    IF t \in SignedTypes
    THEN BigLE(Big(TRUE, MagPow2(Bits(t) - 1)), n)
         /\ BigLE(n, Big(FALSE, MagPow2m1(Bits(t) - 1)))
    ELSE ~n.neg /\ BigLE(n, Big(FALSE, MagPow2m1(Bits(t))))

\* skylark.MakeInt, MakeInt64, MakeUint, MakeUint64: the Int of that value.
MakeInt(n) == Val("Int", n)

\* The name %T prints for a Go value.
GoTypeName(v) ==
    IF v[1] = "struct" THEN v[2]
    ELSE IF v[1] = "slice" THEN "[]interface {}"
    ELSE IF v[1] = "map" THEN "map[interface {}]interface {}"
    ELSE IF v[1] = "set" THEN "map[interface {}]bool"
    ELSE v[1]

\* Value.Type() of a skylark value.
SkTypeName(v) ==
    CASE v[1] = "List" -> "list"
      [] v[1] = "Dict" -> "dict"
      [] v[1] = "Set" -> "set"
      [] v[1] = "Tuple" -> "tuple"
      [] v[1] = "Function" -> "function"
      [] OTHER -> v[1]

RECURSIVE Hashable(_)
\* Whether Value.Hash() of a skylark value succeeds: lists, dicts and sets,
\* and tuples holding one, are unhashable.
Hashable(v) ==
    CASE v[1] \in {"List", "Dict", "Set"} -> FALSE
      [] v[1] = "Tuple" -> \A i \in 1 .. Len(v[2]) : Hashable(v[2][i])
      [] OTHER -> TRUE

\* The first unhashable value Hash() meets in v.
RECURSIVE Unhashable(_)
Unhashable(v) ==
    IF v[1] = "Tuple"
    THEN LET i == CHOOSE j \in 1 .. Len(v[2]) :
                      /\ ~Hashable(v[2][j])
                      /\ \A h \in 1 .. j - 1 : Hashable(v[2][h])
         IN Unhashable(v[2][i])
    ELSE v

RECURSIVE KeyEq(_, _)
\* skylark's equality of two hashable keys: structural, except that an Int
\* and a Float of the same number are equal. A Float's payload counts
\* halves.
KeyEq(a, b) ==
    IF a[1] = "Int" /\ b[1] = "Float"
    THEN Len(a[2].mag) <= 1 /\ 2 * SmallValue(a[2]) = b[2]
    ELSE IF a[1] = "Float" /\ b[1] = "Int"
    THEN Len(b[2].mag) <= 1 /\ 2 * SmallValue(b[2]) = a[2]
    ELSE IF a[1] # b[1] THEN FALSE
    ELSE IF a[1] = "Tuple"
    THEN /\ Len(a[2]) = Len(b[2])
         /\ \A i \in 1 .. Len(a[2]) : KeyEq(a[2][i], b[2][i])
    ELSE a = b

\* Dict.Set(k, v) on the entries of a dict: an unhashable key is an error;
\* an equal key keeps its place and takes the new value; a new key is added
\* last.
DictSet(entries, k, v) ==
    IF ~Hashable(k)
    THEN Err("Unhashable", SkTypeName(Unhashable(k)))
    ELSE IF \E i \in 1 .. Len(entries) : KeyEq(entries[i][1], k)
    THEN LET i == CHOOSE j \in 1 .. Len(entries) : KeyEq(entries[j][1], k)
         IN Ok([entries EXCEPT ![i] = <<entries[i][1], v>>])
    ELSE Ok(Append(entries, <<k, v>>))

\* Set.Insert(k) on the elements of a set.
SetInsert(elems, k) ==
    IF ~Hashable(k)
    THEN Err("Unhashable", SkTypeName(Unhashable(k)))
    ELSE IF \E i \in 1 .. Len(elems) : KeyEq(elems[i], k)
    THEN Ok(elems)
    ELSE Ok(Append(elems, k))

\* ------------------------------------------------------------------------
\* Go to skylark
\* ------------------------------------------------------------------------

RECURSIVE ToValue(_), ConvertElems(_, _, _), MakeList(_), MakeTuple(_),
          MakeDictFrom(_, _, _), MakeDict(_), MakeSetFrom(_, _, _),
          MakeSet(_)

\* The loop of MakeList and MakeTuple from element i on: vals holds the
\* converted elements before i.
ConvertElems(v, i, vals) ==
    IF i > Len(v) THEN Ok(vals)
    ELSE LET r == ToValue(v[i])
         IN IF r[1] # "ok" THEN r
            ELSE ConvertElems(v, i + 1, Append(vals, r[2]))

MakeTuple(v) ==
    LET r == ConvertElems(v, 1, <<>>)
    IN IF r[1] # "ok" THEN r ELSE Ok(Val("Tuple", r[2]))

\* A variant of MakeList that leaves out the elements that do not convert.
MakeListLenient(v) ==
    Ok(Val("List",
           LET F[i \in 0 .. Len(v)] ==
                   IF i = 0 THEN <<>>
                   ELSE IF ToValue(v[i])[1] = "ok"
                        THEN Append(F[i - 1], ToValue(v[i])[2])
                        ELSE F[i - 1]
           IN F[Len(v)]))

MakeList(v) ==
    LET r == ConvertElems(v, 1, <<>>)
    IN IF r[1] # "ok" THEN r ELSE Ok(Val("List", r[2]))

\* The loop of MakeDict from entry i of the map on; the outcome of
\* dict.Set is dropped.
MakeDictFrom(d, i, dict) ==
    IF i > Len(d) THEN Ok(Val("Dict", dict))
    ELSE LET key == ToValue(d[i][1])
         IN IF key[1] # "ok" THEN key
            ELSE LET val == ToValue(d[i][2])
                 IN IF val[1] # "ok" THEN val
                    ELSE LET set == DictSet(dict, key[2], val[2])
                         IN MakeDictFrom(d, i + 1,
                                IF set[1] = "ok" THEN set[2] ELSE dict)

MakeDict(d) == MakeDictFrom(d, 1, <<>>)

\* The loop of MakeSet from entry i of the map on.
MakeSetFrom(s, i, set) ==
    IF i > Len(s) THEN Ok(Val("Set", set))
    ELSE LET key == ToValue(s[i][1])
         IN IF key[1] # "ok" THEN key
            ELSE LET ins == SetInsert(set, key[2])
                 IN IF ins[1] # "ok" THEN ins
                    ELSE MakeSetFrom(s, i + 1, ins[2])

MakeSet(s) == MakeSetFrom(s, 1, <<>>)

\* A variant of the integer cases that converts a signed value through the
\* unsigned constructor, losing the sign.
ToIntUnsigned(v) == MakeInt(Big(FALSE, v[2].mag))

\* The integer cases of ToValue.
ToInt(v) == MakeInt(v[2])

ToValue(v) ==
    IF v[1] = "skylark" THEN Ok(v[2])
    ELSE CASE v[1] \in SignedTypes \cup UnsignedTypes -> Ok(ToInt(v))
           [] v[1] = "bool" -> Ok(Val("Bool", v[2]))
           [] v[1] = "string" -> Ok(Val("String", v[2]))
           [] v[1] \in FloatTypes -> Ok(Val("Float", v[2]))
           [] v[1] = "slice" -> MakeList(v[2])
           [] v[1] = "map" -> MakeDict(v[2])
           [] v[1] = "set" -> MakeSet(v[2])
           [] OTHER -> Err("UnsupportedType", GoTypeName(v))

\* A variant of MakeStringDict that leaves out the entries that do not
\* convert.
MakeStringDictLenient(m) ==
    Ok(LET F[i \in 0 .. Len(m)] ==
               IF i = 0 THEN <<>>
               ELSE IF ToValue(m[i][2])[1] = "ok"
                    THEN Append(F[i - 1], <<m[i][1], ToValue(m[i][2])[2]>>)
                    ELSE F[i - 1]
       IN F[Len(m)])

RECURSIVE MakeStringDictFrom(_, _, _)
\* The loop of MakeStringDict from entry i of the map on.
MakeStringDictFrom(m, i, dict) ==
    IF i > Len(m) THEN Ok(dict)
    ELSE LET val == ToValue(m[i][2])
         IN IF val[1] # "ok" THEN val
            ELSE MakeStringDictFrom(m, i + 1, Append(dict, <<m[i][1], val[2]>>))

\* A namespace (map[string]interface{} or skylark.StringDict) is the
\* sequence of its <<name, value>> entries, names distinct.
MakeStringDict(m) == MakeStringDictFrom(m, 1, <<>>)

\* ------------------------------------------------------------------------
\* skylark to Go
\* ------------------------------------------------------------------------

\* Int.Int64(): exact unless the value lies above MaxInt64 or below
\* MinInt64.
Int64(n) ==
    IF ~n.neg /\ MagLess(MaxInt64.mag, n.mag) THEN [ok |-> FALSE]
    ELSE IF n.neg /\ MagLess(MinInt64.mag, n.mag) THEN [ok |-> FALSE]
    ELSE [ok |-> TRUE]

\* Int.Uint64(): exact unless the value is negative or longer than 64 bits
\* (four limbs).
Uint64(n) ==
    IF n.neg THEN [ok |-> FALSE]
    ELSE IF Len(n.mag) > 64 \div 16 THEN [ok |-> FALSE]
    ELSE [ok |-> TRUE]

\* A variant of the Int case that tries the unsigned conversion first.
FromIntUnsignedFirst(n) ==
    IF Uint64(n).ok THEN Ok(Val("uint64", n))
    ELSE IF Int64(n).ok THEN Ok(Val("int64", n))
    ELSE Err("IntegerOutOfRange", "skylark.Int")

\* The Int case of FromValue.
FromInt(n) ==
    IF Int64(n).ok THEN Ok(Val("int64", n))
    ELSE IF Uint64(n).ok THEN Ok(Val("uint64", n))
    ELSE Err("IntegerOutOfRange", "skylark.Int")

\* Whether a Go value may be a map key: a slice or a map (skylark.Tuple is a
\* slice type) makes the map operation panic.
GoHashable(v) ==
    IF v[1] = "skylark" THEN v[2][1] # "Tuple"
    ELSE v[1] \notin {"slice", "map", "set"}

\* m[k] = v on the entries of a Go map.
GoMapSet(entries, k, v) ==
    IF ~GoHashable(k)
    THEN Panic("runtime error: hash of unhashable type " \o GoTypeName(k))
    ELSE IF \E i \in 1 .. Len(entries) : entries[i][1] = k
    THEN LET i == CHOOSE j \in 1 .. Len(entries) : entries[j][1] = k
         IN Ok([entries EXCEPT ![i] = <<k, v>>])
    ELSE Ok(Append(entries, <<k, v>>))

RECURSIVE FromValue(_), FromElems(_, _, _), FromTuple(_), FromList(_),
          FromDictFrom(_, _, _), FromDict(_), FromSetFrom(_, _, _),
          FromSet(_)

\* The loop of FromTuple and FromList from element i on.
FromElems(vals, i, out) ==
    IF i > Len(vals) THEN Ok(Val("slice", out))
    ELSE LET r == FromValue(vals[i])
         IN IF r[1] # "ok" THEN r
            ELSE FromElems(vals, i + 1, Append(out, r[2]))

FromTuple(v) == FromElems(v, 1, <<>>)

FromList(l) == FromElems(l, 1, <<>>)

\* The loop of FromDict from key i of m.Keys() on: the key is converted,
\* the value m.Get returns is stored as it is.
FromDictFrom(m, i, out) ==
    IF i > Len(m) THEN Ok(Val("map", out))
    ELSE LET key == FromValue(m[i][1])
         IN IF key[1] # "ok" THEN key
            ELSE LET val == m[i][2]
                     set == GoMapSet(out, key[2], Val("skylark", val))
                 IN IF set[1] # "ok" THEN set
                    ELSE FromDictFrom(m, i + 1, set[2])

FromDict(m) == FromDictFrom(m, 1, <<>>)

\* The loop of FromSet from element i on.
FromSetFrom(s, i, out) ==
    IF i > Len(s) THEN Ok(Val("set", out))
    ELSE LET r == FromValue(s[i])
         IN IF r[1] # "ok" THEN r
            ELSE LET set == GoMapSet(out, r[2], TRUE)
                 IN IF set[1] # "ok" THEN set
                    ELSE FromSetFrom(s, i + 1, set[2])

FromSet(s) == FromSetFrom(s, 1, <<>>)

FromValue(v) ==
    CASE v[1] = "Bool" -> Ok(Val("bool", v[2]))
      [] v[1] = "Int" -> FromInt(v[2])
      [] v[1] = "Float" -> Ok(Val("float64", v[2]))
      [] v[1] = "String" -> Ok(Val("string", v[2]))
      [] v[1] = "List" -> FromList(v[2])
      [] v[1] = "Tuple" -> FromTuple(v[2])
      [] v[1] = "Dict" -> FromDict(v[2])
      [] v[1] = "Set" -> FromSet(v[2])
      [] OTHER -> Err("UnsupportedType", "skylark." \o v[1])

RECURSIVE FromStringDictFrom(_, _, _)
\* The loop of FromStringDict from entry i on: an entry whose conversion
\* returns an error is skipped.
FromStringDictFrom(m, i, out) ==
    IF i > Len(m) THEN Ok(out)
    ELSE LET val == FromValue(m[i][2])
         IN IF val[1] = "panic" THEN val
            ELSE IF val[1] = "err" THEN FromStringDictFrom(m, i + 1, out)
            ELSE FromStringDictFrom(m, i + 1, Append(out, <<m[i][1], val[2]>>))

FromStringDict(m) == FromStringDictFrom(m, 1, <<>>)

\* ------------------------------------------------------------------------
\* The values the calls are made with
\* ------------------------------------------------------------------------

SeqsUpTo(S, n) == UNION {[1 .. k -> S] : k \in 0 .. n}

\* Sequences without repetition: the keys of a Go map in some range order.
InjSeqs(S, n) ==
    {s \in SeqsUpTo(S, n) : \A i, j \in 1 .. Len(s) : i # j => s[i] # s[j]}

\* The maps with keys of K and values of V, of at most n entries.
Entries(K, V, n) ==
    UNION {{[i \in 1 .. Len(ks) |-> <<ks[i], vs[i]>>] : vs \in [1 .. Len(ks) -> V]} :
               ks \in InjSeqs(K, n)}

Range(s) == {s[i] : i \in 1 .. Len(s)}

\* The other orders range may visit a map's entries in.
Perms(s) ==
    {[i \in 1 .. Len(s) |-> s[p[i]]] :
        p \in {q \in [1 .. Len(s) -> 1 .. Len(s)] : Range(q) = 1 .. Len(s)}}

FloatSamples == {0 - 3, 0, 2}

GoInts ==
    {Val(t, n) : t \in SignedTypes \cup UnsignedTypes, n \in BigSamples}

GoScalars ==
    {x \in GoInts : InRange(x[1], x[2])}
    \cup {Val(t, f) : t \in FloatTypes, f \in FloatSamples}
    \cup {Val("bool", b) : b \in BOOLEAN}
    \cup {Val("string", str) : str \in {"", "a"}}

GoStruct == Val("struct", "struct {}")
GoOne8 == Val("int8", BigOne)
GoOne64 == Val("int64", BigOne)
GoStr == Val("string", "a")
SkFunction == Val("Function", "f")
SkEmptyList == Val("List", <<>>)
SkOne == Val("Int", BigOne)
SkStr == Val("String", "a")
SkTooBig == Val("Int", Big(FALSE, MagPow2(64)))

\* The elements the generated Go containers are built from: two integers of
\* one magnitude and a float equal to them as skylark keys, a value ToValue
\* has no case for, and two skylark values held as they are, one of them
\* unhashable in skylark.
GoAtoms ==
    {GoOne8, GoOne64, GoStr, Val("float64", 2), GoStruct,
     Val("skylark", SkEmptyList), Val("skylark", SkFunction)}

GoValAtoms == {GoOne8, GoStr, GoStruct}

GoFlat ==
    {Val("slice", e) : e \in SeqsUpTo(GoAtoms, MaxLen)}
    \cup {Val("map", e) : e \in Entries(GoAtoms, GoValAtoms, MaxLen)}
    \cup {Val("set", e) : e \in Entries(GoAtoms, {TRUE}, MaxLen)}

\* The containers that hold x in one place.
GoWrap(x) ==
    {Val("slice", <<x>>), Val("slice", <<GoStr, x>>),
     Val("map", <<<<GoStr, x>>>>), Val("map", <<<<GoOne8, GoStr>>, <<GoStr, x>>>>)}
    \cup (IF GoHashable(x)
          THEN {Val("map", <<<<x, GoStr>>>>), Val("set", <<<<x, TRUE>>>>)}
          ELSE {})

RECURSIVE GoNested(_)
GoNested(d) ==
    IF d = 0 THEN GoAtoms
    ELSE LET S == GoNested(d - 1) IN S \cup UNION {GoWrap(x) : x \in S}

GoValues == GoScalars \cup GoFlat \cup GoNested(MaxDepth)

SkScalars ==
    {Val("Int", n) : n \in BigSamples}
    \cup {Val("Float", f) : f \in FloatSamples}
    \cup {Val("Bool", b) : b \in BOOLEAN}
    \cup {Val("String", str) : str \in {"", "a"}}
    \cup {SkFunction, Val("NoneType", "None")}

SkAtoms == {SkOne, SkTooBig, SkStr, Val("Float", 2), SkFunction}

SkValAtoms == {SkOne, SkStr, SkFunction}

\* The entry sequences that are a dict's or a set's: keys hashable and
\* pairwise unequal.
SkKeysOk(e) ==
    /\ \A i \in 1 .. Len(e) : Hashable(e[i][1])
    /\ \A i, j \in 1 .. Len(e) : i # j => ~KeyEq(e[i][1], e[j][1])

SkFlat ==
    {Val("List", e) : e \in SeqsUpTo(SkAtoms, MaxLen)}
    \cup {Val("Tuple", e) : e \in SeqsUpTo(SkAtoms, MaxLen)}
    \cup {Val("Dict", e) : e \in {x \in Entries(SkAtoms, SkValAtoms, MaxLen) : SkKeysOk(x)}}
    \cup {Val("Set", [i \in 1 .. Len(e) |-> e[i][1]]) :
              e \in {x \in Entries(SkAtoms, {TRUE}, MaxLen) : SkKeysOk(x)}}

SkWrap(x) ==
    {Val("List", <<x>>), Val("List", <<SkStr, x>>), Val("Tuple", <<x>>),
     Val("Dict", <<<<SkStr, x>>>>), Val("Dict", <<<<SkOne, SkStr>>, <<SkStr, x>>>>)}
    \cup (IF Hashable(x)
          THEN {Val("Dict", <<<<x, SkStr>>>>), Val("Set", <<x>>)}
          ELSE {})

RECURSIVE SkNested(_)
SkNested(d) ==
    IF d = 0 THEN SkAtoms
    ELSE LET S == SkNested(d - 1) IN S \cup UNION {SkWrap(x) : x \in S}

SkValues == SkScalars \cup SkFlat \cup SkNested(MaxDepth)

Names == {"a", "b", "c"}

\* The namespaces a caller passes to MakeStringDict or Run.
GoNamespaces ==
    Entries(Names,
            {GoOne8, GoStruct, Val("slice", <<GoStr, GoStruct>>),
             Val("set", <<<<Val("skylark", SkEmptyList), TRUE>>>>)},
            MaxLen)

\* The global scopes a script leaves behind.
SkNamespaces ==
    Entries(Names,
            {SkOne, SkTooBig, SkFunction, Val("List", <<SkFunction>>),
             Val("Dict", <<<<SkStr, SkFunction>>>>),
             Val("Dict", <<<<Val("Tuple", <<SkOne>>), SkStr>>>>),
             Val("Set", <<Val("Tuple", <<>>)>>)},
            MaxLen)

\* ------------------------------------------------------------------------
\* The marshaller's functions, called one at a time
\* ------------------------------------------------------------------------

Called(fn, arg, out) == [fn |-> fn, arg |-> arg, out |-> out]

NoCall == Called("none", <<>>, Ok(<<>>))

PayloadsOf(S, t) == {x[2] : x \in {y \in S : y[1] = t}}

CallToValue ==
    \E v \in GoValues :
        /\ call.fn = "none"
        /\ call' = Called("ToValue", v, ToValue(v))
        /\ UNCHANGED runVars

CallFromValue ==
    \E v \in SkValues :
        /\ call.fn = "none"
        /\ call' = Called("FromValue", v, FromValue(v))
        /\ UNCHANGED runVars

CallMakeTuple ==
    \E v \in PayloadsOf(GoValues, "slice") :
        /\ call.fn = "none"
        /\ call' = Called("MakeTuple", v, MakeTuple(v))
        /\ UNCHANGED runVars

CallMakeList ==
    \E v \in PayloadsOf(GoValues, "slice") :
        /\ call.fn = "none"
        /\ call' = Called("MakeList", v, MakeList(v))
        /\ UNCHANGED runVars

CallMakeDict ==
    \E d \in PayloadsOf(GoValues, "map") :
        /\ call.fn = "none"
        /\ call' = Called("MakeDict", d, MakeDict(d))
        /\ UNCHANGED runVars

CallMakeSet ==
    \E v \in PayloadsOf(GoValues, "set") :
        /\ call.fn = "none"
        /\ call' = Called("MakeSet", v, MakeSet(v))
        /\ UNCHANGED runVars

CallFromDict ==
    \E m \in PayloadsOf(SkValues, "Dict") :
        /\ call.fn = "none"
        /\ call' = Called("FromDict", m, FromDict(m))
        /\ UNCHANGED runVars

CallFromSet ==
    \E v \in PayloadsOf(SkValues, "Set") :
        /\ call.fn = "none"
        /\ call' = Called("FromSet", v, FromSet(v))
        /\ UNCHANGED runVars

CallMakeStringDict ==
    \E m \in GoNamespaces :
        /\ call.fn = "none"
        /\ call' = Called("MakeStringDict", m, MakeStringDict(m))
        /\ UNCHANGED runVars

CallFromStringDict ==
    \E m \in SkNamespaces :
        /\ call.fn = "none"
        /\ call' = Called("FromStringDict", m, FromStringDict(m))
        /\ UNCHANGED runVars

\* The caller takes the outcome; the next call may be made.
CallReturn ==
    /\ call.fn # "none"
    /\ call' = NoCall
    /\ UNCHANGED runVars

\* A Skyhook with no directories and no Run in progress.
InitIdle ==
    /\ dirs = <<>>
    /\ fs = <<>>
    /\ pc = "idle"
    /\ filename = ""
    /\ args = <<>>
    /\ idx = 0
    /\ reads = <<>>
    /\ data = 0
    /\ globals = <<>>
    /\ execCalls = <<>>
    /\ ret = Ok(<<>>)

InitMarshal == InitIdle /\ call = NoCall

NextMarshal ==
    \/ CallToValue
    \/ CallFromValue
    \/ CallMakeTuple
    \/ CallMakeList
    \/ CallMakeDict
    \/ CallMakeSet
    \/ CallFromDict
    \/ CallFromSet
    \/ CallMakeStringDict
    \/ CallFromStringDict
    \/ CallReturn

SpecMarshal == InitMarshal /\ [][NextMarshal]_vars

\* ------------------------------------------------------------------------
\* The plugin runner
\* ------------------------------------------------------------------------

DirNames == {"/a", "/b"}
FileNames == {"p.sky", "q.sky"}

\* What ioutil.ReadFile finds at a path: the file, no such file, or a file
\* it may not read.
FileStates == {"file", "missing", "denied"}

\* The arguments Run is called with: none, convertible ones, one that
\* ToValue rejects, alone and beside a convertible one in both range orders,
\* and a set that cannot take its element.
RunArgs ==
    {<<>>,
     <<<<"a", GoOne8>>, <<"b", Val("slice", <<GoStr>>)>>>>,
     <<<<"a", GoStruct>>>>,
     <<<<"a", GoOne8>>, <<"b", GoStruct>>>>,
     <<<<"b", GoStruct>>, <<"a", GoOne8>>>>,
     <<<<"a", Val("set", <<<<Val("skylark", SkEmptyList), TRUE>>>>)>>,
       <<"b", GoStruct>>>>}

\* What the script does to its global scope when it runs to its end: the
\* bindings it assigns.
ScriptBindings ==
    {<<>>,
     <<<<"a", SkStr>>, <<"x", SkOne>>, <<"f", SkFunction>>>>,
     <<<<"d", Val("Dict", <<<<SkStr, SkFunction>>>>)>>>>,
     <<<<"s", Val("Dict", <<<<Val("Tuple", <<SkOne>>), SkStr>>>>)>>>>}

RECURSIVE Assign(_, _, _)
\* The global scope after the assignments b[i], b[i+1], ...
Assign(g, b, i) ==
    IF i > Len(b) THEN g
    ELSE IF \E j \in 1 .. Len(g) : g[j][1] = b[i][1]
    THEN LET j == CHOOSE h \in 1 .. Len(g) : g[h][1] = b[i][1]
         IN Assign([g EXCEPT ![j] = b[i]], b, i + 1)
    ELSE Assign(Append(g, b[i]), b, i + 1)

NoRet == Ok(<<>>)

\* New(dirs): a Skyhook over the given directories, in a file system that
\* does not change.
Init ==
    /\ dirs \in SeqsUpTo(DirNames, MaxDirs)
    /\ fs \in [DirNames -> [FileNames -> FileStates]]
    /\ pc = "idle"
    /\ filename = ""
    /\ args = <<>>
    /\ idx = 0
    /\ reads = <<>>
    /\ data = 0
    /\ globals = <<>>
    /\ execCalls = <<>>
    /\ ret = NoRet
    /\ call = NoCall

\* Run is called.
Run ==
    /\ pc = "idle"
    /\ \E f \in FileNames, a \in RunArgs :
           /\ filename' = f
           /\ args' = a
    /\ pc' = "resolving"
    /\ idx' = 1
    /\ reads' = <<>>
    /\ data' = 0
    /\ globals' = <<>>
    /\ execCalls' = <<>>
    /\ ret' = NoRet
    /\ UNCHANGED <<dirs, fs, call>>

\* A variant of ReadFile that gives up the search on an error that is not
\* "no such file".
ReadFileStopOnDenied ==
    /\ pc = "resolving"
    /\ idx <= Len(dirs)
    /\ reads' = Append(reads, idx)
    /\ IF fs[dirs[idx]][filename] = "file"
       THEN /\ data' = idx
            /\ pc' = "exec"
            /\ UNCHANGED <<idx, ret>>
       ELSE IF fs[dirs[idx]][filename] = "denied"
       THEN /\ ret' = Err("PluginNotFound", filename)
            /\ pc' = "done"
            /\ UNCHANGED <<idx, data>>
       ELSE /\ idx' = idx + 1
            /\ UNCHANGED <<data, pc, ret>>
    /\ UNCHANGED <<dirs, fs, filename, args, globals, execCalls, call>>

\* One turn of Run's loop: the file is read in directory idx; data is the
\* index of the directory whose content Run goes on with.
ReadFile ==
    /\ pc = "resolving"
    /\ idx <= Len(dirs)
    /\ reads' = Append(reads, idx)
    /\ IF fs[dirs[idx]][filename] = "file"
       THEN /\ data' = idx
            /\ pc' = "exec"
            /\ UNCHANGED idx
       ELSE /\ idx' = idx + 1
            /\ UNCHANGED <<data, pc>>
    /\ UNCHANGED <<dirs, fs, filename, args, globals, execCalls, ret, call>>

\* A variant of NotFound that looks at the arguments first.
NotFoundAfterArgs ==
    /\ pc = "resolving"
    /\ idx > Len(dirs)
    /\ ret' = IF MakeStringDict(args)[1] = "ok"
              THEN Err("PluginNotFound", filename)
              ELSE MakeStringDict(args)
    /\ pc' = "done"
    /\ UNCHANGED <<dirs, fs, filename, args, idx, reads, data, globals,
                   execCalls, call>>

\* The loop ends with no file read.
NotFound ==
    /\ pc = "resolving"
    /\ idx > Len(dirs)
    /\ ret' = Err("PluginNotFound", filename)
    /\ pc' = "done"
    /\ UNCHANGED <<dirs, fs, filename, args, idx, reads, data, globals,
                   execCalls, call>>

\* exec: the arguments become the script's global scope.
Convert ==
    /\ pc = "exec"
    /\ LET r == MakeStringDict(args)
       IN IF r[1] = "ok"
          THEN /\ globals' = r[2]
               /\ pc' = "execfile"
               /\ UNCHANGED ret
          ELSE /\ ret' = r
               /\ pc' = "done"
               /\ UNCHANGED globals
    /\ UNCHANGED <<dirs, fs, filename, args, idx, reads, data, execCalls, call>>

\* exec: skylark.ExecFile runs the script, which fails or assigns globals.
ExecFile ==
    /\ pc = "execfile"
    /\ execCalls' = Append(execCalls,
                           [name |-> filename, src |-> data, globals |-> globals])
    /\ \/ /\ ret' = Err("ExecutionError", filename)
          /\ pc' = "done"
          /\ UNCHANGED globals
       \/ \E b \in ScriptBindings :
              /\ globals' = Assign(globals, b, 1)
              /\ pc' = "extract"
              /\ UNCHANGED ret
    /\ UNCHANGED <<dirs, fs, filename, args, idx, reads, data, call>>

\* exec: the global scope is converted back and returned; a panic in the
\* conversion ends the program.
Extract ==
    /\ pc = "extract"
    /\ ret' = FromStringDict(globals)
    /\ pc' = IF FromStringDict(globals)[1] = "panic" THEN "panicked" ELSE "done"
    /\ UNCHANGED <<dirs, fs, filename, args, idx, reads, data, globals,
                   execCalls, call>>

\* Run has returned; the caller may call again.
Return ==
    /\ pc = "done"
    /\ pc' = "idle"
    /\ UNCHANGED <<dirs, fs, filename, args, idx, reads, data, globals,
                   execCalls, ret, call>>

Next ==
    \/ Run
    \/ ReadFile
    \/ NotFound
    \/ Convert
    \/ ExecFile
    \/ Extract
    \/ Return

Spec == Init /\ [][Next]_vars

\* ------------------------------------------------------------------------
\* Properties of Run (checked under Spec)
\* ------------------------------------------------------------------------

Readable(i) == fs[dirs[i]][filename] = "file"

Returned == pc = "done" \/ (pc = "idle" /\ filename # "")

\* C1: Run reads dir/filename in index order, each directory at most once;
\* every failed read, whatever its kind, moves on to the next directory; the
\* content used is that of the lowest-index directory whose read succeeds;
\* no directory after it is read, also when the conversion of the arguments
\* or the execution of that content fails.
SearchPathOrder ==
    /\ Len(reads) <= Len(dirs)
    /\ \A i \in 1 .. Len(reads) : reads[i] = i
    /\ \A i \in 1 .. Len(reads) : Readable(i) <=> (i = data)
    /\ data # 0 => data = Len(reads)
    /\ (data = 0 /\ pc = "resolving") => Len(reads) = idx - 1
    /\ (data = 0 /\ pc # "resolving" /\ filename # "") => Len(reads) = Len(dirs)
    /\ \A i \in 1 .. Len(execCalls) : execCalls[i].src = data
    /\ (Returned /\ ret[1] = "err" /\ ret[2].kind # "PluginNotFound")
           => (data # 0 /\ Len(reads) = data)

\* A read that fails for another reason than absence is passed over, the
\* next directory's copy is used and fails to execute, and the third
\* directory, which holds the file too, is never read.
SearchPathOrderWitness ==
    /\ pc = "done"
    /\ Len(dirs) = 3
    /\ fs[dirs[1]][filename] = "denied"
    /\ Readable(2)
    /\ Readable(3)
    /\ reads = <<1, 2>>
    /\ IsErr(ret, "ExecutionError", filename)

\* C2: Run returns the PluginNotFound error, naming the filename, exactly
\* when no directory of the list (the empty list included) yields a readable
\* file; then neither the conversion of the arguments nor the interpreter
\* has been invoked, even with an argument that does not convert.
NotFoundExactly ==
    Returned =>
        /\ IsErr(ret, "PluginNotFound", filename)
               <=> (\A i \in 1 .. Len(dirs) : ~Readable(i))
        /\ (ret[1] = "err" /\ ret[2].kind = "PluginNotFound")
               => (ret[2].what = filename /\ execCalls = <<>> /\ globals = <<>>)

\* No directory of a non-empty list has the file, one of them for another
\* reason than absence, and the arguments hold a value that does not
\* convert.
NotFoundWitness ==
    /\ pc = "done"
    /\ dirs # <<>>
    /\ \E i \in 1 .. Len(dirs) : fs[dirs[i]][filename] = "denied"
    /\ MakeStringDict(args)[1] = "err"
    /\ IsErr(ret, "PluginNotFound", filename)

Failing(a) == {j \in 1 .. Len(a) : ToValue(a[j][2])[1] # "ok"}

\* C4: with the file found, Run converts the arguments strictly before the
\* interpreter runs: if an entry of args fails ToValue, Run returns that
\* entry's error and Execute is not invoked; Execute is only ever invoked
\* with a namespace holding the converted binding of every entry of args and
\* nothing else.
StrictArgs ==
    /\ \A i \in 1 .. Len(execCalls) :
           LET g == execCalls[i].globals
           IN /\ Len(g) = Len(args)
              /\ \A j \in 1 .. Len(args) :
                     \E h \in 1 .. Len(g) :
                         /\ g[h][1] = args[j][1]
                         /\ Same(ToValue(args[j][2]), Ok(g[h][2]))
    /\ (Returned /\ data # 0 /\ Failing(args) # {})
           => /\ \E j \in Failing(args) : Same(ret, ToValue(args[j][2]))
              /\ execCalls = <<>>
    /\ pc \in {"execfile", "extract", "panicked"} => Failing(args) = {}

\* The file is found and the second of two arguments does not convert.
StrictArgsWitness ==
    /\ pc = "done"
    /\ data # 0
    /\ Len(args) = 2
    /\ Failing(args) = {2}
    /\ IsErr(ret, "UnsupportedType", "struct {}")
    /\ execCalls = <<>>

\* ------------------------------------------------------------------------
\* Properties of the marshaller (checked under SpecMarshal)
\* ------------------------------------------------------------------------

\* The Go value of the same magnitude that FromValue can return: int64 up to
\* MaxInt64, uint64 above, float64, bool, string.
Widened(x) ==
    IF x[1] \in SignedTypes \cup UnsignedTypes
    THEN IF BigLE(x[2], MaxInt64) THEN Val("int64", x[2]) ELSE Val("uint64", x[2])
    ELSE IF x[1] \in FloatTypes THEN Val("float64", x[2])
    ELSE x

\* C5 as stated: for every scalar x, FromValue(ToValue(x)) succeeds and is
\* x, of the same kind and magnitude.
RoundTripSameValue ==
    (call.fn = "ToValue" /\ call.arg \in GoScalars)
        => (call.out[1] = "ok" /\ Same(FromValue(call.out[2]), Ok(call.arg)))

\* C5 as amended: for every scalar x, FromValue(ToValue(x)) succeeds and has
\* x's magnitude, as an int64 for an integer up to 2^63-1, a uint64 for a
\* larger one, a float64 for a float, and x itself for a bool or a string.
RoundTripMagnitude ==
    (call.fn = "ToValue" /\ call.arg \in GoScalars)
        => (call.out[1] = "ok"
            /\ Same(FromValue(call.out[2]), Ok(Widened(call.arg))))

\* The smallest int8 has gone to skylark; it comes back as an int64.
RoundTripWitness ==
    /\ call.fn = "ToValue"
    /\ call.arg = Val("int8", Big(TRUE, MagPow2(7)))
    /\ call.out[1] = "ok"
    /\ Same(FromValue(call.out[2]), Ok(Val("int64", Big(TRUE, MagPow2(7)))))

\* C6: FromValue of an Int n is the int64 n when MinInt64 <= n <= MaxInt64,
\* the uint64 n when 2^63 <= n <= 2^64-1, and the out-of-range error
\* otherwise; the magnitude is never changed.
IntRangeCheck ==
    (call.fn = "FromValue" /\ call.arg[1] = "Int")
        => LET n == call.arg[2]
           IN IF BigLE(MinInt64, n) /\ BigLE(n, MaxInt64)
              THEN Same(call.out, Ok(Val("int64", n)))
              ELSE IF BigLE(Big(FALSE, MagPow2(63)), n) /\ BigLE(n, MaxUint64)
              THEN Same(call.out, Ok(Val("uint64", n)))
              ELSE call.out[1] = "err" /\ call.out[2].kind = "IntegerOutOfRange"

\* 2^64-1 has been converted, to a uint64.
IntRangeWitness ==
    /\ call.fn = "FromValue"
    /\ call.arg = Val("Int", Big(FALSE, <<Base - 1, Base - 1, Base - 1, Base - 1>>))
    /\ call.out[1] = "ok"
    /\ call.out[2][1] = "uint64"

RECURSIVE HasUnsupported(_)
\* A Go value that ToValue has no case for, or a container holding one at
\* any depth, as an element, a key or a value.
HasUnsupported(x) ==
    CASE x[1] = "struct" -> TRUE
      [] x[1] = "slice" -> \E i \in 1 .. Len(x[2]) : HasUnsupported(x[2][i])
      [] x[1] = "map" ->
             \E i \in 1 .. Len(x[2]) :
                 HasUnsupported(x[2][i][1]) \/ HasUnsupported(x[2][i][2])
      [] x[1] = "set" -> \E i \in 1 .. Len(x[2]) : HasUnsupported(x[2][i][1])
      [] OTHER -> FALSE

RECURSIVE HasUnhashableInSet(_)
\* A Go set holding a skylark value that skylark cannot hash, or a container
\* holding such a set.
HasUnhashableInSet(x) ==
    CASE x[1] = "slice" -> \E i \in 1 .. Len(x[2]) : HasUnhashableInSet(x[2][i])
      [] x[1] = "map" ->
             \E i \in 1 .. Len(x[2]) :
                 HasUnhashableInSet(x[2][i][1]) \/ HasUnhashableInSet(x[2][i][2])
      [] x[1] = "set" ->
             \E i \in 1 .. Len(x[2]) :
                 \/ x[2][i][1][1] = "skylark" /\ ~Hashable(x[2][i][1][2])
                 \/ HasUnhashableInSet(x[2][i][1])
      [] OTHER -> FALSE

\* The container a call of ToValue or of one of the Make functions converts,
\* and the skylark type the function makes.
IsMake == call.fn \in {"MakeTuple", "MakeList", "MakeDict", "MakeSet"}

Converted ==
    CASE call.fn = "ToValue" -> call.arg
      [] call.fn \in {"MakeTuple", "MakeList"} -> Val("slice", call.arg)
      [] call.fn = "MakeDict" -> Val("map", call.arg)
      [] call.fn = "MakeSet" -> Val("set", call.arg)

Shape ==
    CASE call.fn = "MakeTuple" -> "Tuple"
      [] Converted[1] = "slice" -> "List"
      [] Converted[1] = "map" -> "Dict"
      [] Converted[1] = "set" -> "Set"

OfContainer ==
    /\ call.fn = "ToValue" \/ IsMake
    /\ Converted[1] \in {"slice", "map", "set"}

\* C7 as stated: a list, mapping or set holding an unconvertible value at
\* any depth fails the whole call with the UnsupportedType error and makes
\* no container; the call succeeds only when every element converts; an
\* empty container becomes the empty container of its shape.
StrictContainersUnsupported ==
    OfContainer =>
        /\ HasUnsupported(Converted)
               => (call.out[1] = "err" /\ call.out[2].kind = "UnsupportedType")
        /\ call.out[1] = "ok" => ~HasUnsupported(Converted)
        /\ Converted[2] = <<>> => Same(call.out, Ok(Val(Shape, <<>>)))

\* C7 as amended: such a container fails the whole call with an error and
\* makes no container; the error is an unconvertible value's UnsupportedType
\* error unless a set in it holds a skylark value that cannot be hashed,
\* whose failed insertion may be met first and is then the error returned;
\* the call succeeds only when every element converts; an empty container
\* becomes the empty container of its shape.
StrictContainers ==
    OfContainer =>
        /\ HasUnsupported(Converted)
               => /\ call.out[1] = "err"
                  /\ \/ IsErr(call.out, "UnsupportedType", "struct {}")
                     \/ /\ call.out[2].kind = "Unhashable"
                        /\ HasUnhashableInSet(Converted)
        /\ call.out[1] = "ok" => ~HasUnsupported(Converted)
        /\ Converted[2] = <<>> => Same(call.out, Ok(Val(Shape, <<>>)))

\* A list holding a list that holds an unconvertible value has been
\* rejected with that value's error.
StrictContainersWitness ==
    /\ call.fn = "ToValue"
    /\ call.arg[1] = "slice"
    /\ Len(call.arg[2]) = 1
    /\ call.arg[2][1][1] = "slice"
    /\ Len(call.arg[2][1][2]) = 1
    /\ call.arg[2][1][2][1][1] = "struct"
    /\ IsErr(call.out, "UnsupportedType", "struct {}")

OfDict ==
    \/ call.fn = "FromDict"
    \/ call.fn = "FromValue" /\ call.arg[1] = "Dict"

DictEntries == IF call.fn = "FromDict" THEN call.arg ELSE call.arg[2]

\* C8: FromValue of a mapping converts every key and every value: an
\* unconvertible key or value fails the whole conversion, and on success
\* the value stored under each key is the converted Go value.
DictValuesConverted ==
    OfDict =>
        /\ (\E i \in 1 .. Len(DictEntries) :
                \/ FromValue(DictEntries[i][1])[1] = "err"
                \/ FromValue(DictEntries[i][2])[1] = "err")
               => call.out[1] = "err"
        /\ call.out[1] = "ok"
               => \A i \in 1 .. Len(DictEntries) :
                      \E j \in 1 .. Len(call.out[2][2]) :
                          /\ Same(FromValue(DictEntries[i][1]), Ok(call.out[2][2][j][1]))
                          /\ Same(FromValue(DictEntries[i][2]), Ok(call.out[2][2][j][2]))

\* C9: FromValue, and with it FromDict, FromSet and FromStringDict, returns
\* a value or an error for every skylark value, a set of tuples and a
\* mapping with tuple keys included; it never panics.
FromValueTotal ==
    call.fn \in {"FromValue", "FromDict", "FromSet", "FromStringDict"}
        => call.out[1] \in {"ok", "err"}

SameEntries(a, b) ==
    /\ \A i \in 1 .. Len(a) : \E j \in 1 .. Len(b) : a[i] = b[j]
    /\ \A j \in 1 .. Len(b) : \E i \in 1 .. Len(a) : a[i] = b[j]

\* C10: MakeDict returns an error or a mapping with exactly one entry for
\* every key of the Go map, the same whatever the order the map is ranged
\* over.
MakeDictKeepsEntries ==
    call.fn = "MakeDict" =>
        \/ call.out[1] = "err"
        \/ /\ call.out[1] = "ok"
           /\ Len(call.out[2][2]) = Len(call.arg)
           /\ \A p \in Perms(call.arg) :
                  /\ MakeDict(p)[1] = "ok"
                  /\ SameEntries(MakeDict(p)[2][2], call.out[2][2])

RECURSIVE SkUnconvertible(_)
\* A skylark value with no Go form, or a container holding one at any depth.
SkUnconvertible(x) ==
    CASE x[1] \in {"Bool", "Float", "String"} -> FALSE
      [] x[1] = "Int" ->
             ~(BigLE(MinInt64, x[2]) /\ BigLE(x[2], MaxUint64))
      [] x[1] \in {"List", "Tuple", "Set"} ->
             \E i \in 1 .. Len(x[2]) : SkUnconvertible(x[2][i])
      [] x[1] = "Dict" ->
             \E i \in 1 .. Len(x[2]) :
                 SkUnconvertible(x[2][i][1]) \/ SkUnconvertible(x[2][i][2])
      [] OTHER -> TRUE

NamesOf(m) == {m[i][1] : i \in 1 .. Len(m)}

\* C3: FromStringDict never fails; its result binds a name of the namespace
\* exactly when FromValue of its value succeeds, to that converted value; a
\* binding unconvertible at the top or anywhere inside a container is left
\* out; no other name is added.
LenientExtraction ==
    call.fn = "FromStringDict" =>
        /\ call.out[1] = "ok"
        /\ NamesOf(call.out[2]) \subseteq NamesOf(call.arg)
        /\ \A i \in 1 .. Len(call.arg) :
               LET r == FromValue(call.arg[i][2])
               IN /\ (call.arg[i][1] \in NamesOf(call.out[2])) <=> (r[1] = "ok")
                  /\ r[1] = "ok" =>
                         \E j \in 1 .. Len(call.out[2]) :
                             call.out[2][j] = <<call.arg[i][1], r[2]>>
                  /\ SkUnconvertible(call.arg[i][2])
                         => call.arg[i][1] \notin NamesOf(call.out[2])

=============================================================================
